---- MODULE Spec2Model ----
(***************************************************************************)
(* Model of src/Calm.py: the session state kept in st.session_state        *)
(* (conversation_history, mood_history, current_mood), the sentiment       *)
(* classifier, the mood tracker, the response generation and the button    *)
(* handlers of the page.  One script run serves one widget interaction,    *)
(* so exactly one handler is active at a time; a handler that calls        *)
(* ollama.chat blocks in it until the backend returns or raises.           *)
(***************************************************************************)
EXTENDS Integers, Sequences, FiniteSets, TLC

\* ---- bounds of the model ------------------------------------------------
\* A polarity is the fraction p / PolScale, p in -PolScale..PolScale.
PolScale == 4
\* Longest conversation_history explored.
MaxConv == 4
\* Longest mood_history explored.
MaxMoods == 2
\* Last wall-clock second explored.
MaxClock == 1

VARIABLES
    conversation_history,   \* st.session_state.conversation_history
    mood_history,           \* st.session_state.mood_history
    current_mood,           \* st.session_state.current_mood
    now,                    \* the wall clock, in the whole seconds strftime prints
    pc,                     \* the function blocked in ollama.chat, or "idle"
    messages,               \* the messages argument of the ollama.chat call in progress
    user_input,             \* the text submitted in the current or last script run
    selectbox,              \* the label "Log Mood" read from the selectbox in the
                            \* current or last script run (NoSelection when it read none)
    handler,                \* the handler of the current or last script run
    outcome,                \* "none", "running", "returned", "raised" (by ollama.chat)
                            \* or "scorer_raised" (by TextBlob)
    response,               \* what ollama.chat returned in the current or last script run
    ai_response,            \* the reply returned in the current or last script run
    fault,                  \* the failure of a collaborator met in the current or last
                            \* script run: "none", "scorer", "unrecognized_speech"
                            \* or "speech_service"
    st_error,               \* the st.error message shown in the current or last script run
    before,                 \* the session state when the current or last handler began
    origin,                 \* history: who recorded each entry of mood_history
    backend_failed,         \* history: ollama.chat raised in generate_response since
                            \* the last Clear Chat
    respond_called,         \* history: generate_response was called in this session
    appended                \* history: the turns appended since the last Clear Chat

vars == <<conversation_history, mood_history, current_mood, now, pc, messages,
          user_input, selectbox, handler, outcome, response, ai_response, fault,
          st_error, before, origin, backend_failed, respond_called, appended>>

\* ---- values ---------------------------------------------------------------
\* The four labels of analyze_sentiment and of the "Track Your Mood" selectbox
\* (the emoji prefix of each label is left out).
MoodLabels == {"Stressed", "Sad", "Calm", "Happy"}

\* Polarities TextBlob can report, as numerators over PolScale: -1.0 .. 1.0.
Polarities == (-PolScale)..PolScale

\* A user text is represented by the polarity TextBlob scores it with; the
\* texts submitted are those of every second polarity of the grid.
Texts == {p \in Polarities : p % 2 = 0}

\* analysis.sentiment.polarity of TextBlob(text).
Polarity(text) == text

\* Replies of the chat backend: response['message']['content'].
Replies == {<<"reply", "a">>, <<"reply", "b">>}

\* The locals ai_response and user_input of a script run that has none.
NoReply == <<>>

NoInput == "none"

\* The selectbox of a script run in which "Log Mood" was not pressed: the
\* label it holds is not read.
NoSelection == "none"

\* A submitted text on which TextBlob raises instead of giving a polarity.
UnscorableText == "unscorable"

\* The st.error messages of listen_to_microphone, and none shown.
NoError == "none"

UnknownValueMessage == "Sorry, I did not understand that. Please try again."

RequestErrorMessage == "Could not request results from Google Speech Recognition service."

\* A slip in the first comparison: polarity <= -0.5 instead of < -0.5.
MoodOfPolarity_InclusiveStressed(p) ==
    IF 2 * p <= -PolScale THEN "Stressed"
    ELSE IF p < 0 THEN "Sad"
    ELSE IF 2 * p < PolScale THEN "Calm"
    ELSE "Happy"

\* ---- pure functions ---------------------------------------------------------
\* The if/elif chain of analyze_sentiment on a polarity p / PolScale.
MoodOfPolarity(p) ==
    IF 2 * p < -PolScale THEN "Stressed"
    ELSE IF p < 0 THEN "Sad"
    ELSE IF 2 * p < PolScale THEN "Calm"
    ELSE "Happy"

analyze_sentiment(text) == MoodOfPolarity(Polarity(text))

\* The entry track_mood builds: the label and the formatted current time.
MoodEntry(mood) == [mood |-> mood, timestamp |-> now]

\* A slip in track_mood: the newest entry overwrites the last one.
track_mood_Overwrite(mood) ==
    IF mood_history = <<>> THEN <<MoodEntry(mood)>>
    ELSE [mood_history EXCEPT ![Len(mood_history)] = MoodEntry(mood)]

\* track_mood: mood_history.append({...}).
track_mood(mood) == Append(mood_history, MoodEntry(mood))

\* context and full_prompt of generate_response, as the pieces of the f-strings.
full_prompt(mood, text) ==
    <<"User mood detected as ", mood,
      ". Respond with empathy and emotional support.", "\nUser: ", text>>

UserTurn(content) == [role |-> "user", content |-> content]

\* A slip in the role: the reply is stored as a user turn.
AssistantTurn_AsUser(content) == [role |-> "user", content |-> content]

AssistantTurn(content) == [role |-> "assistant", content |-> content]

\* A slip in the append: the turn is inserted at the head of the list.
append_turn_AtHead(history, turn) == <<turn>> \o history

\* conversation_history.append(turn).
append_turn(history, turn) == Append(history, turn)

\* The prompts of generate_affirmation and generate_meditation_guide.
affirmation_prompt(mood) ==
    <<"Provide a positive affirmation for someone feeling ", mood>>

meditation_prompt(mood) ==
    <<"Create a 5-minute guided meditation script for someone feeling ", mood>>

\* The session state a handler starts from.
Snapshot ==
    [conversation_history |-> conversation_history,
     mood_history |-> mood_history,
     current_mood |-> current_mood]

\* ---- initial state ------------------------------------------------------------
Init ==
    /\ conversation_history = <<>>
    /\ mood_history = <<>>
    /\ current_mood = "neutral"
    /\ now = 0
    /\ pc = "idle"
    /\ messages = <<>>
    /\ user_input = NoInput
    /\ selectbox = NoSelection
    /\ handler = "none"
    /\ outcome = "none"
    /\ response = NoReply
    /\ ai_response = NoReply
    /\ fault = "none"
    /\ st_error = NoError
    /\ before = [conversation_history |-> <<>>, mood_history |-> <<>>,
                 current_mood |-> "neutral"]
    /\ origin = <<>>
    /\ backend_failed = FALSE
    /\ respond_called = FALSE
    /\ appended = <<>>

\* ---- actions ------------------------------------------------------------------
\* The wall clock advances by a second.  Time that passes while a handler
\* waits for the backend is not read by it (the timestamp is taken before the
\* call), so the clock is advanced between script runs.
Tick ==
    /\ UNCHANGED respond_called
    /\ UNCHANGED backend_failed
    /\ pc = "idle"
    /\ now < MaxClock
    /\ now' = now + 1
    /\ UNCHANGED <<conversation_history, mood_history, current_mood, pc, messages,
                   user_input, selectbox, handler, outcome, response, ai_response,
                   fault, st_error, before, origin, appended>>

\* A slip in the backend call: only the new turn is sent, not the history.
generate_response_call_SendsNewTurnOnly(text) ==
    LET mood == analyze_sentiment(text)
        turn == UserTurn(full_prompt(mood, text))
    IN  /\ mood_history' = track_mood(mood)
        /\ origin' = Append(origin, "inferred")
        /\ current_mood' = mood
        /\ conversation_history' = append_turn(conversation_history, turn)
        /\ appended' = Append(appended, turn)
        /\ messages' = <<turn>>
        /\ user_input' = text
        /\ pc' = "generate_response"

\* generate_response up to its ollama.chat call: classify, track the mood, set
\* current_mood, append the user turn, hand the whole history to the backend.
generate_response_call(text) ==
    LET mood == analyze_sentiment(text)
        turn == UserTurn(full_prompt(mood, text))
    IN  /\ mood_history' = track_mood(mood)
        /\ origin' = Append(origin, "inferred")
        /\ current_mood' = mood
        /\ conversation_history' = append_turn(conversation_history, turn)
        /\ appended' = Append(appended, turn)
        /\ messages' = conversation_history'
        /\ user_input' = text
        /\ pc' = "generate_response"

\* The chat input handler: a submitted message runs generate_response.
ChatInput ==
    /\ respond_called' = TRUE
    /\ UNCHANGED backend_failed
    /\ pc = "idle"
    /\ Len(conversation_history) + 2 <= MaxConv
    /\ Len(mood_history) < MaxMoods
    /\ \E text \in Texts : generate_response_call(text)
    /\ handler' = "chat_input"
    /\ outcome' = "running"
    /\ before' = Snapshot
    /\ fault' = "none"
    /\ st_error' = NoError
    /\ response' = NoReply
    /\ ai_response' = NoReply
    /\ selectbox' = NoSelection
    /\ UNCHANGED now

\* TextBlob raised in analyze_sentiment, the first statement of
\* generate_response: nothing catches the exception, so the script run ends
\* before any session state is written and before the backend is called.
analyze_sentiment_raise ==
    /\ outcome' = "scorer_raised"
    /\ UNCHANGED <<conversation_history, appended, mood_history, origin, current_mood,
                   messages, pc>>

\* The chat input handler on a text the scorer fails on.
ChatInputUnscored ==
    /\ respond_called' = TRUE
    /\ UNCHANGED backend_failed
    /\ pc = "idle"
    /\ analyze_sentiment_raise
    /\ user_input' = UnscorableText
    /\ handler' = "chat_input"
    /\ before' = Snapshot
    /\ fault' = "scorer"
    /\ st_error' = NoError
    /\ response' = NoReply
    /\ ai_response' = NoReply
    /\ selectbox' = NoSelection
    /\ UNCHANGED now

\* listen_to_microphone when recognize_google raises UnknownValueError
\* ("unrecognized_speech") or RequestError ("speech_service"): the except
\* clause shows the message with st.error and the function returns None.
listen_to_microphone_failure(kind) ==
    /\ fault' = kind
    /\ st_error' = IF kind = "unrecognized_speech" THEN UnknownValueMessage
                   ELSE RequestErrorMessage

\* A slip in the handler: the text of the message is answered as if spoken.
no_speech_input_Responds ==
    /\ Len(conversation_history) + 2 <= MaxConv
    /\ Len(mood_history) < MaxMoods
    /\ \E text \in Texts : generate_response_call(text)
    /\ outcome' = "running"

\* The microphone handler when speech_input is None: "if speech_input:" skips
\* generate_response and the script run goes on to its end.
no_speech_input ==
    /\ user_input' = NoInput
    /\ outcome' = "returned"
    /\ UNCHANGED <<conversation_history, appended, mood_history, origin, current_mood,
                   messages, pc>>

\* The microphone button when the transcription fails.
MicrophoneFails ==
    /\ UNCHANGED respond_called
    /\ UNCHANGED backend_failed
    /\ pc = "idle"
    /\ \E kind \in {"unrecognized_speech", "speech_service"} :
          listen_to_microphone_failure(kind)
    /\ no_speech_input
    /\ handler' = "microphone"
    /\ before' = Snapshot
    /\ response' = NoReply
    /\ ai_response' = NoReply
    /\ selectbox' = NoSelection
    /\ UNCHANGED now

\* The microphone button when the speech is recognized: the text runs
\* generate_response like a submitted message.
MicrophoneRecognized ==
    /\ respond_called' = TRUE
    /\ UNCHANGED backend_failed
    /\ pc = "idle"
    /\ Len(conversation_history) + 2 <= MaxConv
    /\ Len(mood_history) < MaxMoods
    /\ \E text \in Texts : generate_response_call(text)
    /\ handler' = "microphone"
    /\ outcome' = "running"
    /\ before' = Snapshot
    /\ fault' = "none"
    /\ st_error' = NoError
    /\ response' = NoReply
    /\ ai_response' = NoReply
    /\ selectbox' = NoSelection
    /\ UNCHANGED now

\* The microphone button when the recognized text is one the scorer fails on.
MicrophoneRecognizedUnscored ==
    /\ respond_called' = TRUE
    /\ UNCHANGED backend_failed
    /\ pc = "idle"
    /\ analyze_sentiment_raise
    /\ user_input' = UnscorableText
    /\ handler' = "microphone"
    /\ before' = Snapshot
    /\ fault' = "scorer"
    /\ st_error' = NoError
    /\ response' = NoReply
    /\ ai_response' = NoReply
    /\ selectbox' = NoSelection
    /\ UNCHANGED now

\* ollama.chat returned: generate_response appends the assistant turn and
\* returns the reply.
generate_response_return(reply) ==
    /\ conversation_history' = append_turn(conversation_history, AssistantTurn(reply))
    /\ appended' = Append(appended, AssistantTurn(reply))
    /\ ai_response' = reply

ChatReturns ==
    /\ UNCHANGED respond_called
    /\ UNCHANGED backend_failed
    /\ pc = "generate_response"
    /\ \E reply \in Replies : response' = reply /\ generate_response_return(reply)
    /\ pc' = "idle"
    /\ outcome' = "returned"
    /\ messages' = <<>>
    /\ UNCHANGED <<mood_history, current_mood, now, user_input, selectbox, handler,
                   fault, st_error, before, origin>>

\* ollama.chat raised: nothing in generate_response or its caller catches the
\* exception, so the script run ends there with the session state as it is.
generate_response_raise ==
    UNCHANGED <<conversation_history, appended, mood_history, origin, current_mood>>

ChatRaises ==
    /\ UNCHANGED respond_called
    /\ pc = "generate_response"
    /\ generate_response_raise
    /\ backend_failed' = TRUE
    /\ pc' = "idle"
    /\ outcome' = "raised"
    /\ messages' = <<>>
    /\ response' = NoReply
    /\ ai_response' = NoReply
    /\ UNCHANGED <<now, user_input, selectbox, handler, fault, st_error, before>>

\* The "Track Your Mood" expander: the user chooses a label in the selectbox
\* (a script run in which no button fires) and presses "Log Mood", which runs
\* track_mood on the label the selectbox holds.
LogMood ==
    /\ UNCHANGED respond_called
    /\ UNCHANGED backend_failed
    /\ pc = "idle"
    /\ Len(mood_history) < MaxMoods
    /\ \E mood \in MoodLabels : selectbox' = mood
    /\ mood_history' = track_mood(selectbox')
    /\ origin' = Append(origin, "manual")
    /\ handler' = "log_mood"
    /\ outcome' = "returned"
    /\ before' = Snapshot
    /\ fault' = "none"
    /\ st_error' = NoError
    /\ user_input' = NoInput
    /\ response' = NoReply
    /\ ai_response' = NoReply
    /\ UNCHANGED <<conversation_history, current_mood, now, pc, messages, appended>>

\* A slip in the handler: the mood history is not cleared.
ClearChat_KeepsMoodHistory ==
    /\ UNCHANGED respond_called
    /\ pc = "idle"
    /\ conversation_history' = <<>>
    /\ appended' = <<>>
    /\ backend_failed' = FALSE
    /\ handler' = "clear_chat"
    /\ outcome' = "returned"
    /\ before' = Snapshot
    /\ fault' = "none"
    /\ st_error' = NoError
    /\ user_input' = NoInput
    /\ response' = NoReply
    /\ ai_response' = NoReply
    /\ selectbox' = NoSelection
    /\ UNCHANGED <<mood_history, origin, current_mood, now, pc, messages>>

\* The "Clear Chat" button: both lists are replaced by empty lists.
ClearChat ==
    /\ UNCHANGED respond_called
    /\ pc = "idle"
    /\ conversation_history' = <<>>
    /\ mood_history' = <<>>
    /\ origin' = <<>>
    /\ appended' = <<>>
    /\ backend_failed' = FALSE
    /\ handler' = "clear_chat"
    /\ outcome' = "returned"
    /\ before' = Snapshot
    /\ fault' = "none"
    /\ st_error' = NoError
    /\ user_input' = NoInput
    /\ response' = NoReply
    /\ ai_response' = NoReply
    /\ selectbox' = NoSelection
    /\ UNCHANGED <<current_mood, now, pc, messages>>

\* A slip in generate_affirmation: the prompt is sent behind the conversation.
generate_affirmation_call_SendsHistory ==
    /\ messages' = Append(conversation_history,
                          UserTurn(affirmation_prompt(current_mood)))
    /\ pc' = "generate_affirmation"
    /\ UNCHANGED <<conversation_history, mood_history, current_mood, origin, appended>>

\* generate_affirmation and generate_meditation_guide up to their ollama.chat
\* call: a single user message built from current_mood.
generate_affirmation_call ==
    /\ messages' = <<UserTurn(affirmation_prompt(current_mood))>>
    /\ pc' = "generate_affirmation"
    /\ UNCHANGED <<conversation_history, mood_history, current_mood, origin, appended>>

generate_meditation_guide_call ==
    /\ messages' = <<UserTurn(meditation_prompt(current_mood))>>
    /\ pc' = "generate_meditation_guide"
    /\ UNCHANGED <<conversation_history, mood_history, current_mood, origin, appended>>

GetAffirmation ==
    /\ UNCHANGED respond_called
    /\ UNCHANGED backend_failed
    /\ pc = "idle"
    /\ generate_affirmation_call
    /\ handler' = "affirmation"
    /\ outcome' = "running"
    /\ before' = Snapshot
    /\ fault' = "none"
    /\ st_error' = NoError
    /\ user_input' = NoInput
    /\ response' = NoReply
    /\ ai_response' = NoReply
    /\ selectbox' = NoSelection
    /\ UNCHANGED now

GuidedMeditation ==
    /\ UNCHANGED respond_called
    /\ UNCHANGED backend_failed
    /\ pc = "idle"
    /\ generate_meditation_guide_call
    /\ handler' = "meditation"
    /\ outcome' = "running"
    /\ before' = Snapshot
    /\ fault' = "none"
    /\ st_error' = NoError
    /\ user_input' = NoInput
    /\ response' = NoReply
    /\ ai_response' = NoReply
    /\ selectbox' = NoSelection
    /\ UNCHANGED now

\* ollama.chat returned to generate_affirmation or generate_meditation_guide:
\* the reply is returned and shown, no session state is written.
auxiliary_return(reply) ==
    /\ ai_response' = reply
    /\ UNCHANGED <<conversation_history, mood_history, current_mood, origin, appended>>

AuxiliaryReturns ==
    /\ UNCHANGED respond_called
    /\ UNCHANGED backend_failed
    /\ pc \in {"generate_affirmation", "generate_meditation_guide"}
    /\ \E reply \in Replies : response' = reply /\ auxiliary_return(reply)
    /\ pc' = "idle"
    /\ outcome' = "returned"
    /\ messages' = <<>>
    /\ UNCHANGED <<now, user_input, selectbox, handler, fault, st_error, before>>

\* ollama.chat raised in generate_affirmation or generate_meditation_guide.
AuxiliaryRaises ==
    /\ UNCHANGED respond_called
    /\ UNCHANGED backend_failed
    /\ pc \in {"generate_affirmation", "generate_meditation_guide"}
    /\ pc' = "idle"
    /\ outcome' = "raised"
    /\ messages' = <<>>
    /\ response' = NoReply
    /\ ai_response' = NoReply
    /\ UNCHANGED <<conversation_history, mood_history, current_mood, origin, appended,
                   now, user_input, selectbox, handler, fault, st_error, before>>

Next ==
    \/ Tick
    \/ ChatInput
    \/ ChatInputUnscored
    \/ MicrophoneFails
    \/ MicrophoneRecognized
    \/ MicrophoneRecognizedUnscored
    \/ ChatReturns
    \/ ChatRaises
    \/ LogMood
    \/ ClearChat
    \/ GetAffirmation
    \/ GuidedMeditation
    \/ AuxiliaryReturns
    \/ AuxiliaryRaises

Spec == Init /\ [][Next]_vars

\* ---- properties -----------------------------------------------------------------
\* The handlers that run generate_response on a text.
RespondHandlers == {"chat_input", "microphone"}

\* generate_response ran in the script run and classified its text.
RespondClassified == handler \in RespondHandlers /\ fault = "none"

\* The script run of generate_response ended with ollama.chat raising.
RespondFailed == handler \in RespondHandlers /\ outcome = "raised"

\* The script run ended with generate_response returning.
RespondSucceeded == RespondClassified /\ outcome = "returned"

\* s is t followed by exactly n more elements.
Extends(s, t, n) == Len(s) = Len(t) + n /\ SubSeq(s, 1, Len(t)) = t

\* C1: when the backend call of generate_response fails, the conversation is
\* what it was before the call: the new user turn and the new assistant turn
\* are both present or both absent, never the user turn alone.
Cex_C1_FailedRespondLeavesConversation ==
    RespondFailed =>
        \/ conversation_history = before.conversation_history
        \/ /\ Extends(conversation_history, before.conversation_history, 2)
           /\ conversation_history[Len(conversation_history) - 1].role = "user"
           /\ conversation_history[Len(conversation_history)].role = "assistant"

\* The band table of the classifier, one disjunct per half-open band.
InBand(label, p) ==
    \/ label = "Stressed" /\ 2 * p < -PolScale
    \/ label = "Sad" /\ -PolScale <= 2 * p /\ p < 0
    \/ label = "Calm" /\ 0 <= p /\ 2 * p < PolScale
    \/ label = "Happy" /\ PolScale <= 2 * p

\* C2: analyze_sentiment maps every polarity of the grid to the one label whose
\* half-open band holds it; -0.5 is Sad, 0 is Calm and 0.5 is Happy; and the
\* mood a chat input sets is the label of the band of its text's polarity.
Thm_C2_BandTable ==
    /\ \A p \in Polarities :
          /\ InBand(MoodOfPolarity(p), p)
          /\ Cardinality({label \in MoodLabels : InBand(label, p)}) = 1
    /\ MoodOfPolarity(0) = "Calm"
    /\ PolScale % 2 = 0 =>
          /\ MoodOfPolarity(-(PolScale \div 2)) = "Sad"
          /\ MoodOfPolarity(PolScale \div 2) = "Happy"
    /\ RespondClassified =>
          /\ current_mood = analyze_sentiment(user_input)
          /\ InBand(current_mood, Polarity(user_input))

\* A text of polarity exactly -0.5 was answered and the mood is Sad.
Wit_C2_BoundaryIsSad ==
    /\ RespondSucceeded
    /\ 2 * Polarity(user_input) = -PolScale
    /\ current_mood = "Sad"

\* C3: when the backend call of generate_response fails, the classification
\* is kept (current_mood is the label of the text and the mood history holds
\* the one new entry for it) and the conversation is as long as before the call.
Cex_C3_FailedRespondKeepsMoodOnly ==
    RespondFailed =>
        /\ current_mood = analyze_sentiment(user_input)
        /\ Extends(mood_history, before.mood_history, 1)
        /\ mood_history[Len(mood_history)].mood = analyze_sentiment(user_input)
        /\ Len(conversation_history) = Len(before.conversation_history)

\* C4: Clear Chat can always be pressed between script runs, it returns, and
\* it leaves the conversation and the mood history empty.
Thm_C4_ClearChatEmptiesBoth ==
    /\ pc = "idle" => ENABLED ClearChat
    /\ handler = "clear_chat" =>
          /\ outcome = "returned"
          /\ Len(conversation_history) = 0
          /\ Len(mood_history) = 0

\* Clear Chat ran on a session holding the longest conversation and mood history.
Wit_C4_ClearedFullSession ==
    /\ handler = "clear_chat"
    /\ Len(before.conversation_history) = MaxConv
    /\ Len(before.mood_history) = MaxMoods
    /\ conversation_history = <<>>
    /\ mood_history = <<>>

\* The step is a press of Clear Chat.
IsClearStep == pc = "idle" /\ handler' = "clear_chat" /\ now' = now

\* The step records a mood: the chat input up to its backend call, or Log Mood.
IsRecordStep ==
    \/ pc = "idle" /\ pc' = "generate_response"
    \/ pc = "idle" /\ pc' = "idle" /\ handler' = "log_mood" /\ now' = now

\* C5: the mood history is append-only between resets: a record adds exactly
\* one entry behind the unchanged earlier ones, only Clear Chat shortens it, no
\* other step changes it, and its length is the number of records (inferred
\* and manual) since the last Clear Chat.
Thm_C5_MoodHistoryAppendOnly ==
    /\ [](Len(mood_history) = Len(origin))
    /\ [][ IF IsClearStep THEN mood_history' = <<>>
           ELSE IF IsRecordStep THEN Extends(mood_history', mood_history, 1)
           ELSE mood_history' = mood_history ]_vars

\* The mood history holds a manual entry followed by an inferred one.
Wit_C5_BothKindsRecorded ==
    /\ Len(mood_history) = 2
    /\ origin = <<"manual", "inferred">>

\* The last entry of the mood history.
NewestEntry == mood_history[Len(mood_history)]

\* C6: a chat input whose backend call succeeds appends the user turn (the
\* mood instruction naming the label, then the raw text) and the assistant
\* turn holding the backend's reply, appends one mood entry that carries the
\* label of the text and the source "inferred", sets current_mood to the label
\* and returns the reply.
Cex_C6_RespondRecordsInferredSource ==
    RespondSucceeded =>
        /\ Extends(conversation_history, before.conversation_history, 2)
        /\ conversation_history[Len(conversation_history) - 1] =
              UserTurn(<<"User mood detected as ", analyze_sentiment(user_input),
                         ". Respond with empathy and emotional support.",
                         "\nUser: ", user_input>>)
        /\ conversation_history[Len(conversation_history)] = AssistantTurn(response)
        /\ ai_response = response
        /\ current_mood = analyze_sentiment(user_input)
        /\ Extends(mood_history, before.mood_history, 1)
        /\ NewestEntry.mood = analyze_sentiment(user_input)
        /\ "source" \in DOMAIN NewestEntry
        /\ NewestEntry["source"] = "inferred"

\* C7: the conversation read back is the sequence of turns appended since the
\* last Clear Chat, in the order of the appends, and every step other than
\* Clear Chat keeps the stored turns as an unchanged prefix.
Thm_C7_ConversationKeepsOrder ==
    /\ [](conversation_history = appended)
    /\ [][ IsClearStep \/
           \E n \in 0..1 : Extends(conversation_history', conversation_history, n) ]_vars

\* The longest conversation: two user turns, each followed by its reply.
Wit_C7_FourTurnsInOrder ==
    /\ Len(conversation_history) = MaxConv
    /\ conversation_history = appended
    /\ \A i \in 1..Len(conversation_history) :
          conversation_history[i].role = IF i % 2 = 1 THEN "user" ELSE "assistant"

\* C8: the messages generate_response hands to ollama.chat are the whole
\* conversation: every turn stored since the last Clear Chat, in order, ending
\* with the user turn just appended.
Thm_C8_WholeHistorySent ==
    pc = "generate_response" =>
        /\ messages = conversation_history
        /\ messages = appended
        /\ Extends(messages, before.conversation_history, 1)
        /\ messages[Len(messages)] = UserTurn(full_prompt(current_mood, user_input))

\* A backend call that carries earlier turns besides the new user turn.
Wit_C8_CallWithEarlierTurns ==
    /\ pc = "generate_response"
    /\ Len(messages) = MaxConv - 1
    /\ Len(before.conversation_history) = MaxConv - 2

\* The one message generate_affirmation or generate_meditation_guide sends.
AuxiliaryMessages ==
    IF handler = "affirmation"
    THEN <<UserTurn(<<"Provide a positive affirmation for someone feeling ",
                      current_mood>>)>>
    ELSE <<UserTurn(<<"Create a 5-minute guided meditation script for someone feeling ",
                      current_mood>>)>>

\* C9: generate_affirmation and generate_meditation_guide leave the
\* conversation, the mood history and current_mood as they were, whether the
\* backend returns or raises, and send one message built from current_mood alone.
Thm_C9_AuxiliaryCallsAreStateless ==
    handler \in {"affirmation", "meditation"} =>
        /\ Snapshot = before
        /\ outcome \in {"running", "returned", "raised"}
        /\ outcome = "running" => messages = AuxiliaryMessages

\* A meditation request failed in a session that has turns and mood entries.
Wit_C9_FailedAuxiliaryCall ==
    /\ handler = "meditation"
    /\ outcome = "raised"
    /\ Len(conversation_history) >= 2
    /\ Len(mood_history) >= 1
    /\ current_mood \in MoodLabels

\* C10: Log Mood of a label appends one entry with that label, leaves the
\* conversation and current_mood alone and runs no classification, and the
\* entry it stores, being marked manual, differs from every entry that
\* generate_response inferred, also from one with the same label.
Cex_C10_ManualEntryDistinguishable ==
    handler = "log_mood" =>
        /\ Extends(mood_history, before.mood_history, 1)
        /\ NewestEntry.mood = selectbox
        /\ conversation_history = before.conversation_history
        /\ current_mood = before.current_mood
        /\ user_input = NoInput
        /\ \A i \in 1..(Len(mood_history) - 1) :
              origin[i] = "inferred" => mood_history[i] # NewestEntry

\* C11: when the sentiment scorer fails on the text, the turn is not aborted:
\* the text counts as polarity 0.0, so current_mood is Calm and a Calm entry
\* is recorded, the user turn is appended and the chat backend is called.
Cex_C11_ScorerFailureTreatedAsNeutral ==
    fault = "scorer" =>
        /\ outcome # "scorer_raised"
        /\ current_mood = "Calm"
        /\ Extends(mood_history, before.mood_history, 1)
        /\ NewestEntry.mood = "Calm"
        /\ Len(conversation_history) > Len(before.conversation_history)
        /\ conversation_history[Len(before.conversation_history) + 1] =
              UserTurn(full_prompt("Calm", user_input))
        /\ pc = "generate_response" \/ outcome \in {"returned", "raised"}

\* What the code does instead: the script run ends in analyze_sentiment with
\* the session state untouched and no backend call made.
ScorerFailureAbortsRespond ==
    fault = "scorer" =>
        /\ outcome = "scorer_raised"
        /\ Snapshot = before
        /\ pc = "idle"
        /\ messages = <<>>
        /\ ai_response = NoReply

\* The transcription of the captured speech failed in the script run.
TranscriptionFailed == fault \in {"unrecognized_speech", "speech_service"}

\* C12: when voice capture ends in unrecognized speech or in an unreachable
\* speech service, the failure is shown as a message and the script run ends
\* normally, generate_response is not run, and the conversation, the mood
\* history and current_mood are what they were: no turn is created.
Thm_C12_TranscriptionFailureCreatesNoTurn ==
    TranscriptionFailed =>
        /\ handler = "microphone"
        /\ st_error = IF fault = "unrecognized_speech" THEN UnknownValueMessage
                      ELSE RequestErrorMessage
        /\ outcome = "returned"
        /\ pc = "idle"
        /\ messages = <<>>
        /\ user_input = NoInput
        /\ response = NoReply
        /\ Snapshot = before

\* The speech service was unreachable in a session that has turns and entries.
Wit_C12_ServiceUnavailableMidSession ==
    /\ fault = "speech_service"
    /\ st_error = RequestErrorMessage
    /\ Len(conversation_history) >= 2
    /\ Len(mood_history) >= 1
    /\ current_mood \in MoodLabels

\* The roles of the conversation are user, assistant, user, assistant, ...
RolesAlternate ==
    \A i \in 1..Len(conversation_history) :
        conversation_history[i].role = IF i % 2 = 1 THEN "user" ELSE "assistant"

\* Two neighbouring turns of the conversation have the same role.
SameRoleTwice ==
    \E i \in 1..(Len(conversation_history) - 1) :
        conversation_history[i].role = conversation_history[i + 1].role

\* C13: while no generate_response call is in progress and no backend call of
\* it has failed since the last Clear Chat, the conversation has even length
\* and its roles alternate user, assistant from the first turn; two
\* neighbouring turns of the same role occur only after a backend failure.
Thm_C13_AlternationUntilBackendFailure ==
    /\ (pc # "generate_response" /\ ~backend_failed) =>
          /\ Len(conversation_history) % 2 = 0
          /\ RolesAlternate
    /\ SameRoleTwice => backend_failed

\* Two answered turns and no backend failure since the last Clear Chat.
Wit_C13_AlternatingAfterAnswers ==
    /\ pc = "idle"
    /\ ~backend_failed
    /\ Len(conversation_history) = MaxConv
    /\ RolesAlternate

\* A state the session reaches: after a backend failure and a further text,
\* two user turns are neighbours.
SameRoleTwiceAfterFailure ==
    /\ backend_failed
    /\ SameRoleTwice

\* C14: current_mood is "neutral" until generate_response is first called and
\* one of the four labels ever after, and only generate_response changes it:
\* Log Mood, Clear Chat and the two auxiliary generations leave it as it was.
Cex_C14_LabelAfterFirstRespond ==
    /\ ~respond_called => current_mood = "neutral"
    /\ respond_called => current_mood \in MoodLabels
    /\ handler \notin RespondHandlers => current_mood = before.current_mood

\* What the code does: current_mood is "neutral" or a label, it is a label
\* once a generate_response call has classified its text, and the handlers
\* other than the two that run generate_response leave it as it was.
CurrentMoodWrittenByRespondOnly ==
    /\ current_mood \in MoodLabels \cup {"neutral"}
    /\ ~respond_called => current_mood = "neutral"
    /\ RespondClassified => current_mood = analyze_sentiment(user_input)
    /\ ~RespondClassified => current_mood = before.current_mood

\* A state the session reaches: Clear Chat has emptied the mood history and
\* current_mood still holds the label of an earlier text.
LabelKeptOverClearChat ==
    /\ handler = "clear_chat"
    /\ mood_history = <<>>
    /\ current_mood \in MoodLabels

\* A state the session reaches: the newest entry of the mood history was
\* logged by hand and its label is not current_mood.
CurrentMoodDiffersFromNewestEntry ==
    /\ handler = "log_mood"
    /\ current_mood \in MoodLabels
    /\ NewestEntry.mood # current_mood

\* ---- what the code does where a claim fails ----------------------------------
\* A failed backend call of generate_response leaves the user turn it appended
\* and the mood entry it recorded: one more turn, one more entry, the new mood.
FailedRespondLeavesUserTurn ==
    RespondFailed =>
        /\ Extends(conversation_history, before.conversation_history, 1)
        /\ conversation_history[Len(conversation_history)] =
              UserTurn(full_prompt(current_mood, user_input))
        /\ Extends(mood_history, before.mood_history, 1)
        /\ NewestEntry.mood = analyze_sentiment(user_input)
        /\ current_mood = analyze_sentiment(user_input)

\* Every mood entry holds a label and a timestamp and nothing else.
MoodEntriesHoldLabelAndTime ==
    \A i \in 1..Len(mood_history) :
        /\ DOMAIN mood_history[i] = {"mood", "timestamp"}
        /\ mood_history[i].mood \in MoodLabels
        /\ mood_history[i].timestamp \in 0..now

====
